---- MODULE Spec2Model ----
(***************************************************************************)
(* downpour: the bencoding decoder of src/src/lib.rs and the printing of   *)
(* its result by src/src/main.rs.                                          *)
(*                                                                         *)
(* Bytes are the integers 0..255; a byte slice (&[u8], Vec<u8>) and a text *)
(* (String) are sequences of them.  A slice data[a..b] of the source (0    *)
(* based, b exclusive) is SubSeq(data, a + 1, b) here (1 based).           *)
(*                                                                         *)
(* An i64 is kept at its width: a two's complement word of four 16 bit     *)
(* limbs, least significant first.  Rust's integer arithmetic panics on    *)
(* overflow when the crate is built with overflow checks (the dev and test *)
(* profiles) and wraps when it is built without (the release profile); the *)
(* variable overflow_checks holds which build is running.                  *)
(***************************************************************************)
EXTENDS Integers, Sequences, FiniteSets

VARIABLES
    data,             \* decode's argument: the bytes read by main.rs
    overflow_checks,  \* TRUE: the build panics on overflow; FALSE: it wraps
    offset,           \* decode's cursor (lib.rs:370)
    ret,              \* decode's accumulated elements (lib.rs:371)
    pc,               \* "decode" | "ok" | "err" | "panic" | "printed"
    error,            \* the DecodeError of DecodedDocument::Err, or NoError
    stdout            \* what println! wrote (main.rs:33, 42)

vars == <<data, overflow_checks, offset, ret, pc, error, stdout>>

(***************************************************************************)
(* Byte constants (lib.rs:136-141) and the literals of lib.rs:170, 357.    *)
(***************************************************************************)
COLON == 58
MINUS == 45
D == 100
E == 101
I == 105
L == 108
ASCII_0 == 48
ASCII_9 == 57

(***************************************************************************)
(* i64 arithmetic at its width.                                            *)
(***************************************************************************)
LimbBase == 2 ^ 16
SignBit == 2 ^ 15

I64Zero == <<0, 0, 0, 0>>
I64Min == <<0, 0, 0, SignBit>>

IsNegative(w) == w[4] >= SignBit

\* the sign extension limb of a word
SignLimb(w) == IF IsNegative(w) THEN LimbBase - 1 ELSE 0

\* a five limb two's complement value fits in an i64 iff its fifth limb is
\* the sign extension of the fourth
FitsI64(l4, l5) ==
    \/ l5 = 0 /\ l4 < SignBit
    \/ l5 = LimbBase - 1 /\ l4 >= SignBit

\* An arithmetic result: panic is TRUE when the build checks overflow and the
\* exact result does not fit; val is the wrapped result.
\* a * m for an i64 a and 0 <= m <= 255 (a u8 cast to i64, or the base 10)
MulI64(a, m, checks) ==
    LET p1 == a[1] * m
        p2 == a[2] * m + (p1 \div LimbBase)
        p3 == a[3] * m + (p2 \div LimbBase)
        p4 == a[4] * m + (p3 \div LimbBase)
        p5 == SignLimb(a) * m + (p4 \div LimbBase)
    IN  [panic |-> checks /\ ~FitsI64(p4 % LimbBase, p5 % LimbBase),
         val |-> <<p1 % LimbBase, p2 % LimbBase, p3 % LimbBase, p4 % LimbBase>>]

\* a + b for two i64
AddI64(a, b, checks) ==
    LET s1 == a[1] + b[1]
        s2 == a[2] + b[2] + (s1 \div LimbBase)
        s3 == a[3] + b[3] + (s2 \div LimbBase)
        s4 == a[4] + b[4] + (s3 \div LimbBase)
        s5 == SignLimb(a) + SignLimb(b) + (s4 \div LimbBase)
    IN  [panic |-> checks /\ ~FitsI64(s4 % LimbBase, s5 % LimbBase),
         val |-> <<s1 % LimbBase, s2 % LimbBase, s3 % LimbBase, s4 % LimbBase>>]

\* -a: the complement plus one; only -i64::MIN overflows
NegI64(a, checks) ==
    LET c == <<LimbBase - 1 - a[1], LimbBase - 1 - a[2],
               LimbBase - 1 - a[3], LimbBase - 1 - a[4]>>
        s1 == c[1] + 1
        s2 == c[2] + (s1 \div LimbBase)
        s3 == c[3] + (s2 \div LimbBase)
        s4 == c[4] + (s3 \div LimbBase)
    IN  [panic |-> checks /\ a = I64Min,
         val |-> <<s1 % LimbBase, s2 % LimbBase, s3 % LimbBase, s4 % LimbBase>>]

\* 10i64.pow(index) (lib.rs:170).  The standard library squares and
\* multiplies; with overflow checks it panics exactly when 10^index does not
\* fit (no intermediate square exceeds the result for index <= 18), and
\* without it returns 10^index mod 2^64, as repeated multiplication does.
RECURSIVE Pow10(_, _)
Pow10(index, checks) ==
    IF index = 0 THEN [panic |-> FALSE, val |-> <<1, 0, 0, 0>>]
    ELSE LET p == Pow10(index - 1, checks)
         IN  IF p.panic THEN p ELSE MulI64(p.val, 10, checks)

\* n - 0x30 on u8 (lib.rs:170)
SubU8(n, checks) ==
    IF n >= ASCII_0 THEN [panic |-> FALSE, val |-> n - ASCII_0]
    ELSE [panic |-> checks, val |-> n - ASCII_0 + 256]

(***************************************************************************)
(* Results.  A DecodeError carries, beside the fields of lib.rs:19-23, the *)
(* history field true_offset: the error's local offset with, at every      *)
(* frame it passes, the index at which that frame sliced the data it       *)
(* handed down (lib.rs:267, 310, 314, 374) added.  No decision reads it.   *)
(***************************************************************************)
Panic == [tag |-> "Panic"]

Err(error_type, msg, off) ==
    [tag |-> "Err",
     err |-> [offset |-> off, msg |-> msg, error_type |-> error_type,
              true_offset |-> off]]

\* DecodeResult::Ok(ElementDecoded{element, end_offset})
Ok(element, end_offset) ==
    [tag |-> "Ok", element |-> element, end_offset |-> end_offset]

ByteString(bytes) == [kind |-> "ByteString", bytes |-> bytes]
Integer(val) == [kind |-> "Integer", val |-> val]
List(items) == [kind |-> "List", items |-> items]
Dict(entries) == [kind |-> "Dict", entries |-> entries]
DictEntry(key, value) == [key |-> key, value |-> value]

\* data[from..]
SliceFrom(s, from) == SubSeq(s, from + 1, Len(s))

\* data.iter().position(|d_var| d_var == b): the 0 based index of the first
\* b, or -1 for None
RECURSIVE PositionFrom(_, _, _)
PositionFrom(s, b, i) ==
    IF i >= Len(s) THEN -1
    ELSE IF s[i + 1] = b THEN i
    ELSE PositionFrom(s, b, i + 1)

Position(s, b) == PositionFrom(s, b, 0)

(***************************************************************************)
(* decode_ascii_integer (lib.rs:143-178)                                   *)
(***************************************************************************)
\* the for loop of lib.rs:167-171 over iter.rev().enumerate():
\* val += ((n - 0x30) as i64) * 10i64.pow(index)
RECURSIVE ascii_integer_loop(_, _, _, _)
ascii_integer_loop(iter, index, val, checks) ==
    LET Times(digit, power) ==
            IF digit.panic \/ power.panic THEN [panic |-> TRUE, val |-> val]
            ELSE MulI64(power.val, digit.val, checks)
        Plus(term) ==
            IF term.panic THEN term ELSE AddI64(val, term.val, checks)
        Continue(sum) ==
            IF sum.panic THEN sum
            ELSE ascii_integer_loop(iter, index + 1, sum.val, checks)
    IN  IF index = Len(iter) THEN [panic |-> FALSE, val |-> val]
        ELSE Continue(Plus(Times(SubU8(iter[Len(iter) - index], checks),
                                 Pow10(index, checks))))

decode_ascii_integer(bytes, checks) ==
    LET negative == Len(bytes) > 0 /\ bytes[1] = MINUS
        iter == IF negative THEN Tail(bytes) ELSE bytes
        Negate(neg) ==
            IF neg.panic THEN Panic ELSE [tag |-> "Ok", val |-> neg.val]
        Return(r) ==
            IF r.panic THEN Panic
            ELSE IF negative THEN Negate(NegI64(r.val, checks))
            ELSE [tag |-> "Ok", val |-> r.val]
    IN  IF Len(bytes) = 0
        THEN Err("NothingToDecode", "Nothing to decode", 0)
        ELSE Return(ascii_integer_loop(iter, 0, I64Zero, checks))

(***************************************************************************)
(* Two faulty variants of decode_bytestring, which the properties of C3    *)
(* and C10 tell from the code.                                             *)
(***************************************************************************)
\* the payload is taken from the ':' on: decode_start = size_end
decode_bytestring_colon_uncounted(bytes, checks) ==
    LET size_end == Position(bytes, COLON)
        decode_start == size_end
        Short(length) == length[2] = 0 /\ length[3] = 0 /\ length[4] = 0
        Match(size) ==
            CASE size.tag = "Panic" -> Panic
              [] size.tag = "Err" ->
                   [tag |-> "Err",
                    err |-> [offset |-> size.err.offset,
                             msg |-> "Can't decode size integer for string",
                             error_type |-> "InvalidByteStringSize",
                             true_offset |-> size.err.true_offset]]
              [] size.tag = "Ok" /\ ~Short(size.val) -> Panic
              [] size.tag = "Ok" /\ Short(size.val)
                    /\ decode_start + size.val[1] > Len(bytes) -> Panic
              [] OTHER ->
                   Ok(ByteString(SubSeq(bytes, decode_start + 1,
                                        decode_start + size.val[1])),
                      decode_start + size.val[1])
    IN  IF size_end = -1
        THEN Err("MissingDelimiter",
                 "Can't decode bytestring from data: missing ':'", 0)
        ELSE Match(decode_ascii_integer(SubSeq(bytes, 1, size_end), checks))

\* end_offset is the payload's length, not the index past the payload
decode_bytestring_length_as_end(bytes, checks) ==
    LET size_end == Position(bytes, COLON)
        decode_start == size_end + 1
        Short(length) == length[2] = 0 /\ length[3] = 0 /\ length[4] = 0
        Match(size) ==
            CASE size.tag = "Panic" -> Panic
              [] size.tag = "Err" ->
                   [tag |-> "Err",
                    err |-> [offset |-> size.err.offset,
                             msg |-> "Can't decode size integer for string",
                             error_type |-> "InvalidByteStringSize",
                             true_offset |-> size.err.true_offset]]
              [] size.tag = "Ok" /\ ~Short(size.val) -> Panic
              [] size.tag = "Ok" /\ Short(size.val)
                    /\ decode_start + size.val[1] > Len(bytes) -> Panic
              [] OTHER ->
                   Ok(ByteString(SubSeq(bytes, decode_start + 1,
                                        decode_start + size.val[1])),
                      size.val[1])
    IN  IF size_end = -1
        THEN Err("MissingDelimiter",
                 "Can't decode bytestring from data: missing ':'", 0)
        ELSE Match(decode_ascii_integer(SubSeq(bytes, 1, size_end), checks))

(***************************************************************************)
(* decode_bytestring (lib.rs:180-210)                                      *)
(***************************************************************************)
decode_bytestring(bytes, checks) ==
    LET size_end == Position(bytes, COLON)
        decode_start == size_end + 1
        \* `length as usize` is below 2^16: its three upper limbs are 0
        Short(length) == length[2] = 0 /\ length[3] = 0 /\ length[4] = 0
        Match(size) ==
            CASE size.tag = "Panic" -> Panic
              [] size.tag = "Err" ->
                   [tag |-> "Err",
                    err |-> [offset |-> size.err.offset,
                             msg |-> "Can't decode size integer for string",
                             error_type |-> "InvalidByteStringSize",
                             true_offset |-> size.err.true_offset]]
              \* A length of 2^16 or more (a negative i64 is 2^63 or more as
              \* usize): decode_start + length either overflows usize (a
              \* panic with overflow checks; without, a wrapped decode_end
              \* below decode_start) or exceeds data.len(), which is below
              \* 2^16 here.  The slice of lib.rs:189 panics in each case, as
              \* it does for a short length that reaches past the end.
              [] size.tag = "Ok" /\ ~Short(size.val) -> Panic
              [] size.tag = "Ok" /\ Short(size.val)
                    /\ decode_start + size.val[1] > Len(bytes) -> Panic
              [] OTHER ->
                   Ok(ByteString(SubSeq(bytes, decode_start + 1,
                                        decode_start + size.val[1])),
                      decode_start + size.val[1])
    IN  IF size_end = -1
        THEN Err("MissingDelimiter",
                 "Can't decode bytestring from data: missing ':'", 0)
        ELSE Match(decode_ascii_integer(SubSeq(bytes, 1, size_end), checks))

(***************************************************************************)
(* decode_integer (lib.rs:212-245)                                         *)
(***************************************************************************)
decode_integer(bytes, checks) ==
    LET integer_end == Position(bytes, E)
        Match(element) ==
            CASE element.tag = "Panic" -> Panic
              [] element.tag = "Err" ->
                   Err("InvalidIntegerValue", "Can't decode integer", 0)
              [] OTHER -> Ok(Integer(element.val), integer_end + 1)
    IN  IF Len(bytes) = 0 THEN Panic    \* &data[0] of an empty slice
        ELSE IF bytes[1] # I
        THEN Err("MissingStartDelimiter",
                 "Can't decode integer: missing leading 'i'", 0)
        ELSE IF integer_end = -1
        THEN Err("MissingEndDelimiter",
                 "Can't decode integer: missing end 'e'", 0)
        ELSE Match(decode_ascii_integer(SubSeq(bytes, 2, integer_end), checks))

(***************************************************************************)
(* dispatch, decode_list, decode_dict (lib.rs:247-367)                     *)
(***************************************************************************)
RECURSIVE dispatch(_, _)
RECURSIVE decode_list_loop(_, _, _, _)
RECURSIVE decode_dict_loop(_, _, _, _)

\* An error of a callee, as the frame that sliced data[slice_start..] for it
\* and adds `added` to its offset returns it (lib.rs:273-277, 320-324,
\* 336-341, 380-384).
Propagate(e, added, slice_start) ==
    [tag |-> "Err",
     err |-> [offset |-> e.offset + added,
              msg |-> e.msg,
              error_type |-> e.error_type,
              true_offset |-> e.true_offset + slice_start]]

\* the while loop of lib.rs:260-281 and the return of lib.rs:283-287
decode_list_loop(bytes, off, acc, checks) ==
    LET Match(result) ==
            CASE result.tag = "Ok" ->
                   decode_list_loop(bytes, off + result.end_offset,
                                    Append(acc, result.element), checks)
              [] result.tag = "Err" -> Propagate(result.err, off, off)
              [] OTHER -> Panic
    IN  IF ~(off < Len(bytes))
        THEN Err("MissingEndDelimiter",
                 "Can't decode list: ran out of chars before trailing 'e'", off)
        ELSE IF bytes[off + 1] = E
        THEN Ok(List(acc), off + 1)
        ELSE Match(dispatch(SliceFrom(bytes, off), checks))

decode_list(bytes, checks) ==
    IF Len(bytes) = 0 THEN Panic    \* &data[0] of an empty slice
    ELSE IF bytes[1] # L
    THEN Err("MissingStartDelimiter", "Can't decode list: missing leading 'l'", 0)
    ELSE decode_list_loop(bytes, 1, <<>>, checks)

\* the while loop of lib.rs:303-346 and the return of lib.rs:348-352
decode_dict_loop(bytes, off, acc, checks) ==
    LET MatchValue(decode_key, result) ==
            CASE result.tag = "Ok" ->
                   decode_dict_loop(
                       bytes, off + result.end_offset + decode_key.end_offset,
                       Append(acc, DictEntry(decode_key.element.bytes,
                                             result.element)),
                       checks)
              [] result.tag = "Err" ->
                   Propagate(result.err, off, off + decode_key.end_offset)
              [] OTHER -> Panic
        MatchKey(decode_key) ==
            CASE decode_key.tag = "Panic" -> Panic
              [] decode_key.tag = "Err" -> Propagate(decode_key.err, off, off)
              [] decode_key.tag = "Ok" /\ decode_key.element.kind # "ByteString" ->
                   Err("InvalidDictKey",
                       "Can't decode dict key: got non bytestring element", off)
              [] OTHER ->
                   MatchValue(decode_key,
                              dispatch(SliceFrom(bytes, off + decode_key.end_offset),
                                       checks))
    IN  IF ~(off < Len(bytes))
        THEN Err("MissingEndDelimiter", "Can't decode dict: ran out of chars", off)
        ELSE IF bytes[off + 1] = E
        THEN Ok(Dict(acc), off + 1)
        ELSE MatchKey(decode_bytestring(SliceFrom(bytes, off), checks))

decode_dict(bytes, checks) ==
    IF Len(bytes) = 0 THEN Panic    \* &data[0] of an empty slice
    ELSE IF bytes[1] # D
    THEN Err("MissingStartDelimiter", "Can't decode list: missing leading 'd'", 0)
    ELSE decode_dict_loop(bytes, 1, <<>>, checks)

dispatch(bytes, checks) ==
    IF Len(bytes) = 0 THEN Panic    \* &data[0] of an empty slice
    ELSE CASE bytes[1] >= ASCII_0 /\ bytes[1] <= ASCII_9 ->
                decode_bytestring(bytes, checks)
           [] bytes[1] = I -> decode_integer(bytes, checks)
           [] bytes[1] = L -> decode_list(bytes, checks)
           [] bytes[1] = D -> decode_dict(bytes, checks)
           [] OTHER ->
                Err("DispatchFailed",
                    "Unable to continue parsing: can't determine where to dispatch",
                    0)

(***************************************************************************)
(* Display (lib.rs:63-134).  A String is the sequence of its UTF-8 bytes.  *)
(***************************************************************************)
QUOTE == 34
BACKSLASH == 92
COMMA == 44
SPACE == 32
LBRACKET == 91
RBRACKET == 93
LBRACE == 123
RBRACE == 125

IsCont(s, i) == i <= Len(s) /\ s[i] >= 128 /\ s[i] <= 191

InRange(s, i, lo, hi) == i <= Len(s) /\ s[i] >= lo /\ s[i] <= hi

\* String::from_utf8(..) is Ok (lib.rs:72, 81): the bytes from index i on are
\* well-formed UTF-8 (no overlong form, no surrogate, nothing above U+10FFFF)
RECURSIVE IsUtf8From(_, _)
IsUtf8From(s, i) ==
    IF i > Len(s) THEN TRUE
    ELSE CASE s[i] < 128 -> IsUtf8From(s, i + 1)
           [] s[i] >= 194 /\ s[i] <= 223 ->
                IsCont(s, i + 1) /\ IsUtf8From(s, i + 2)
           [] s[i] = 224 ->
                InRange(s, i + 1, 160, 191) /\ IsCont(s, i + 2)
                /\ IsUtf8From(s, i + 3)
           [] (s[i] >= 225 /\ s[i] <= 236) \/ s[i] = 238 \/ s[i] = 239 ->
                IsCont(s, i + 1) /\ IsCont(s, i + 2) /\ IsUtf8From(s, i + 3)
           [] s[i] = 237 ->
                InRange(s, i + 1, 128, 159) /\ IsCont(s, i + 2)
                /\ IsUtf8From(s, i + 3)
           [] s[i] = 240 ->
                InRange(s, i + 1, 144, 191) /\ IsCont(s, i + 2)
                /\ IsCont(s, i + 3) /\ IsUtf8From(s, i + 4)
           [] s[i] >= 241 /\ s[i] <= 243 ->
                IsCont(s, i + 1) /\ IsCont(s, i + 2) /\ IsCont(s, i + 3)
                /\ IsUtf8From(s, i + 4)
           [] s[i] = 244 ->
                InRange(s, i + 1, 128, 143) /\ IsCont(s, i + 2)
                /\ IsCont(s, i + 3) /\ IsUtf8From(s, i + 4)
           [] OTHER -> FALSE

IsUtf8(s) == IsUtf8From(s, 1)

\* s.replace("\"", "\\\"") (lib.rs:82)
RECURSIVE EscapeQuotes(_)
EscapeQuotes(s) ==
    IF s = <<>> THEN <<>>
    ELSE (IF Head(s) = QUOTE THEN <<BACKSLASH, QUOTE>> ELSE <<Head(s)>>)
         \o EscapeQuotes(Tail(s))

\* the standard base64 alphabet: A-Z a-z 0-9 + /
Base64Char(v) ==
    IF v < 26 THEN 65 + v
    ELSE IF v < 52 THEN 97 + (v - 26)
    ELSE IF v < 62 THEN 48 + (v - 52)
    ELSE IF v = 62 THEN 43
    ELSE 47

\* base64::encode(s) (lib.rs:83): three bytes to four characters, '=' padded
RECURSIVE Base64Encode(_)
Base64Encode(s) ==
    IF Len(s) = 0 THEN <<>>
    ELSE IF Len(s) = 1
    THEN <<Base64Char(s[1] \div 4), Base64Char((s[1] % 4) * 16), 61, 61>>
    ELSE IF Len(s) = 2
    THEN <<Base64Char(s[1] \div 4),
           Base64Char((s[1] % 4) * 16 + (s[2] \div 16)),
           Base64Char((s[2] % 16) * 4), 61>>
    ELSE <<Base64Char(s[1] \div 4),
           Base64Char((s[1] % 4) * 16 + (s[2] \div 16)),
           Base64Char((s[2] % 16) * 4 + (s[3] \div 64)),
           Base64Char(s[3] % 64)>>
         \o Base64Encode(SubSeq(s, 4, Len(s)))

\* an unsigned four limb value divided by ten: quotient and remainder
DivMod10(w) ==
    LET c4 == w[4]
        c3 == (c4 % 10) * LimbBase + w[3]
        c2 == (c3 % 10) * LimbBase + w[2]
        c1 == (c2 % 10) * LimbBase + w[1]
    IN  [quot |-> <<c1 \div 10, c2 \div 10, c3 \div 10, c4 \div 10>>,
         rem |-> c1 % 10]

\* the decimal digits of an unsigned four limb value
RECURSIVE FormatUnsigned(_)
FormatUnsigned(w) ==
    LET qr == DivMod10(w)
    IN  IF qr.quot = I64Zero THEN <<ASCII_0 + qr.rem>>
        ELSE Append(FormatUnsigned(qr.quot), ASCII_0 + qr.rem)

\* write!(f, "{}", i) for an i64 (lib.rs:87): the magnitude of i64::MIN is
\* its own bit pattern read unsigned
FormatI64(w) ==
    IF IsNegative(w) THEN <<MINUS>> \o FormatUnsigned(NegI64(w, FALSE).val)
    ELSE FormatUnsigned(w)

\* String::pop: removes the last character, if there is one (the last
\* character is one of [ { , and space wherever lib.rs pops)
Pop(s) == IF Len(s) = 0 THEN s ELSE SubSeq(s, 1, Len(s) - 1)

RECURSIVE FormatElement(_)
RECURSIVE FormatListEntries(_, _, _)
RECURSIVE FormatDictEntries(_, _, _)

\* impl Display for DictEntry (lib.rs:69-74); unwrap() panics on a key
\* that is not UTF-8
FormatDictEntry(entry) ==
    LET value == FormatElement(entry.value)
    IN  IF ~IsUtf8(entry.key) \/ value.panic
        THEN [panic |-> TRUE, text |-> <<>>]
        ELSE [panic |-> FALSE,
              text |-> <<QUOTE>> \o entry.key \o <<QUOTE, COLON, SPACE>>
                       \o value.text]

\* the for loop of lib.rs:93-95, from entry i on
FormatListEntries(list, i, formatted) ==
    IF i > Len(list) THEN [panic |-> FALSE, text |-> formatted]
    ELSE LET entry == FormatElement(list[i])
         IN  IF entry.panic THEN entry
             ELSE FormatListEntries(list, i + 1,
                                    formatted \o entry.text \o <<COMMA, SPACE>>)

\* the for loop of lib.rs:105-107, from entry i on
FormatDictEntries(dict, i, formatted) ==
    IF i > Len(dict) THEN [panic |-> FALSE, text |-> formatted]
    ELSE LET entry == FormatDictEntry(dict[i])
         IN  IF entry.panic THEN entry
             ELSE FormatDictEntries(dict, i + 1,
                                    formatted \o entry.text \o <<COMMA, SPACE>>)

\* impl Display for Element (lib.rs:76-115)
FormatElement(element) ==
    CASE element.kind = "ByteString" ->
           [panic |-> FALSE,
            text |-> <<QUOTE>>
                     \o (IF IsUtf8(element.bytes)
                         THEN EscapeQuotes(element.bytes)
                         ELSE Base64Encode(element.bytes))
                     \o <<QUOTE>>]
      [] element.kind = "Integer" ->
           [panic |-> FALSE, text |-> FormatI64(element.val)]
      [] element.kind = "List" ->
           LET formatted == FormatListEntries(element.items, 1, <<LBRACKET>>)
           IN  IF formatted.panic THEN formatted
               ELSE [panic |-> FALSE,
                     text |-> Append(Pop(Pop(formatted.text)), RBRACKET)]
      [] element.kind = "Dict" ->
           LET formatted == FormatDictEntries(element.entries, 1, <<LBRACE>>)
           IN  IF formatted.panic THEN formatted
               ELSE [panic |-> FALSE,
                     text |-> Append(Pop(Pop(formatted.text)), RBRACE)]

\* impl Display for DecodedDocument, the Ok arm (lib.rs:120-128): the
\* elements one after the other
RECURSIVE FormatElements(_, _, _)
FormatElements(elements, i, written) ==
    IF i > Len(elements) THEN [panic |-> FALSE, text |-> written]
    ELSE LET el == FormatElement(elements[i])
         IN  IF el.panic THEN el
             ELSE FormatElements(elements, i + 1, written \o el.text)

\* impl Display for DecodeError (lib.rs:63-67): the format string and its
\* arguments
FormatDecodeError(e) ==
    <<"ERROR! offset: {}, error type: {:?}\nmessage:\n{}",
      e.offset, e.error_type, e.msg>>

(***************************************************************************)
(* The inputs: every byte string of at most MaxLen bytes over Alphabet,    *)
(* and the inputs of the crate's tests, of its description and of the      *)
(* limits of i64 and of UTF-8.                                             *)
(***************************************************************************)
MaxLen == 4

\* 0 1 : - d e i l a
Alphabet == {48, 49, 58, 45, 100, 101, 105, 108, 97}

ShortInputs == UNION {[1..n -> Alphabet] : n \in 0..MaxLen}

LongInputs == {
    \* d1:ax   (spec 8 / C1)
    <<100, 49, 58, 97, 120>>,
    \* 5:abc   (spec 8)
    <<53, 58, 97, 98, 99>>,
    \* di1ee   (C6)
    <<100, 105, 49, 101, 101>>,
    \* i e   (spec 8)
    <<105, 32, 101>>,
    \* d1:a   (spec 8)
    <<100, 49, 58, 97>>,
    \* x   (spec 8)
    <<120>>,
    \* i007e   (spec 8)
    <<105, 48, 48, 55, 101>>,
    \* i-0e   (spec 8)
    <<105, 45, 48, 101>>,
    \* i1ei2e   (spec 4.7)
    <<105, 49, 101, 105, 50, 101>>,
    \* 8:announce   (lib.rs:573)
    <<56, 58, 97, 110, 110, 111, 117, 110, 99, 101>>,
    \* i-18e   (lib.rs:580)
    <<105, 45, 49, 56, 101>>,
    \* li10ei1el1:bee1:a   (lib.rs:598)
    <<108, 105, 49, 48, 101, 105, 49, 101, 108, 49, 58, 98, 101, 101, 49, 58, 97>>,
    \* d1:ai10ee   (lib.rs:519)
    <<100, 49, 58, 97, 105, 49, 48, 101, 101>>,
    \* d4:listli10ei1el1:beee1:a   (lib.rs:531)
    <<100, 52, 58, 108, 105, 115, 116, 108, 105, 49, 48, 101, 105, 49, 101, 108, 49, 58, 98, 101, 101, 101, 49, 58, 97>>,
    \* 7:comment5:"a b"10:created by   (a '"' in the payload; after lib.rs:587)
    <<55, 58, 99, 111, 109, 109, 101, 110, 116, 53, 58, 34, 97, 32, 98, 34, 49, 48, 58, 99, 114, 101, 97, 116, 101, 100, 32, 98, 121>>,
    \* d13:creation datei1662813552ee   (lib.rs:612)
    <<100, 49, 51, 58, 99, 114, 101, 97, 116, 105, 111, 110, 32, 100, 97, 116, 101, 105, 49, 54, 54, 50, 56, 49, 51, 53, 53, 50, 101, 101>>,
    \* 10:ab:cde:fghi1e   (a two digit length, ':' and 'e' in the payload)
    <<49, 48, 58, 97, 98, 58, 99, 100, 101, 58, 102, 103, 104, 105, 49, 101>>,
    \* 3:e:e1:a   (':' and 'e' in the payload)
    <<51, 58, 101, 58, 101, 49, 58, 97>>,
    \* d1:ad1:bleee0:   (nested containers, then a trailing value)
    <<100, 49, 58, 97, 100, 49, 58, 98, 108, 101, 101, 101, 48, 58>>,
    \* i9223372036854775807e   (i64::MAX)
    <<105, 57, 50, 50, 51, 51, 55, 50, 48, 51, 54, 56, 53, 52, 55, 55, 53, 56, 48, 55, 101>>,
    \* i-9223372036854775808e   (i64::MIN)
    <<105, 45, 57, 50, 50, 51, 51, 55, 50, 48, 51, 54, 56, 53, 52, 55, 55, 53, 56, 48, 56, 101>>,
    \* i9223372036854775808e   (i64::MAX + 1)
    <<105, 57, 50, 50, 51, 51, 55, 50, 48, 51, 54, 56, 53, 52, 55, 55, 53, 56, 48, 56, 101>>,
    \* i0000000000000000007e   (19 digits)
    <<105, 48, 48, 48, 48, 48, 48, 48, 48, 48, 48, 48, 48, 48, 48, 48, 48, 48, 48, 55, 101>>,
    \* i00000000000000000007e   (20 digits)
    <<105, 48, 48, 48, 48, 48, 48, 48, 48, 48, 48, 48, 48, 48, 48, 48, 48, 48, 48, 48, 55, 101>>,
    \* 1:\xff   (not UTF-8)
    <<49, 58, 255>>,
    \* 2:\xc3\xa9   (UTF-8, two bytes)
    <<50, 58, 195, 169>>,
    \* l3:\xff\xfe\xfde   (not UTF-8, in a list)
    <<108, 51, 58, 255, 254, 253, 101>>,
    \* d1:\xff0:e   (a dict key that is not UTF-8)
    <<100, 49, 58, 255, 48, 58, 101>>
}

Inputs == ShortInputs \cup LongInputs

(***************************************************************************)
(* The program: main.rs reads the bytes, calls decode (lib.rs:369-389) and *)
(* prints the result.                                                      *)
(***************************************************************************)
NoError == [offset |-> 0, msg |-> "", error_type |-> "", true_offset |-> 0]

Init ==
    /\ data \in Inputs
    /\ overflow_checks \in BOOLEAN
    /\ offset = 0
    /\ ret = <<>>
    /\ pc = "decode"
    /\ error = NoError
    /\ stdout = <<>>

\* one iteration of the while loop of lib.rs:373-386
DecodeStep ==
    LET Match(result) ==
            CASE result.tag = "Ok" ->
                   /\ ret' = Append(ret, result.element)
                   /\ offset' = offset + result.end_offset
                   /\ UNCHANGED <<pc, error>>
              [] result.tag = "Err" ->
                   /\ error' = Propagate(result.err, offset, offset).err
                   /\ pc' = "err"
                   /\ UNCHANGED <<ret, offset>>
              [] OTHER ->
                   /\ pc' = "panic"
                   /\ UNCHANGED <<ret, offset, error>>
    IN  /\ pc = "decode"
        /\ offset < Len(data)
        /\ Match(dispatch(SliceFrom(data, offset), overflow_checks))
        /\ UNCHANGED <<data, overflow_checks, stdout>>

\* the loop condition fails: return DecodedDocument::Ok(ret) (lib.rs:388)
DecodeReturn ==
    /\ pc = "decode"
    /\ ~(offset < Len(data))
    /\ pc' = "ok"
    /\ UNCHANGED <<data, overflow_checks, offset, ret, error, stdout>>

\* println!("{}", decode(..)) (main.rs:33, 42)
Println ==
    /\ pc \in {"ok", "err"}
    /\ IF pc = "err"
       THEN /\ stdout' = FormatDecodeError(error)
            /\ pc' = "printed"
       ELSE LET written == FormatElements(ret, 1, <<>>)
            IN  IF written.panic
                THEN pc' = "panic" /\ UNCHANGED stdout
                ELSE stdout' = Append(written.text, 10) /\ pc' = "printed"
    /\ UNCHANGED <<data, overflow_checks, offset, ret, error>>

Next == DecodeStep \/ DecodeReturn \/ Println

Spec == Init /\ [][Next]_vars

(***************************************************************************)
(* Properties.  They speak of the slices the decoders are handed: every    *)
(* suffix of the input.                                                    *)
(***************************************************************************)
Slices == {SliceFrom(data, p) : p \in 0..Len(data)}

IsDigit(b) == b >= ASCII_0 /\ b <= ASCII_9

\* the value of a run of at most nine decimal digits, first digit first
RECURSIVE DigitsValue(_)
DigitsValue(digits) ==
    IF digits = <<>> THEN 0
    ELSE 10 * DigitsValue(SubSeq(digits, 1, Len(digits) - 1))
         + (digits[Len(digits)] - ASCII_0)

\* The N of a slice that begins <decimal N>: (N written without leading
\* zeros, in at most nine digits); -1 for any other slice.
DeclaredLength(s) ==
    LET k == Position(s, COLON)
    IN  IF /\ k >= 1
           /\ k <= 9
           /\ \A j \in 1..k : IsDigit(s[j])
           /\ (k > 1 => s[1] # ASCII_0)
        THEN DigitsValue(SubSeq(s, 1, k))
        ELSE -1

\* C1: whenever decode returns an error, its offset is absolute in the
\* input: the index at which the failing decoder's slice began plus that
\* decoder's local offset, every frame having added all it had consumed
\* before the call (in a dict, the key before the value too).
C1_ErrorOffsetAbsolute ==
    pc = "err" => error.offset = error.true_offset

\* C3: for every payload of N bytes (any bytes, ':' and 'e' too) and any
\* trailing bytes, decode_bytestring on <decimal N>:<payload><trailing>
\* returns ByteString(payload) with end_offset = digits of N + 1 + N.
C3_ByteStringDecodes ==
    \A s \in Slices :
        LET n == DeclaredLength(s)
            k == Position(s, COLON)
            Claimed(r) ==
                r = Ok(ByteString(SubSeq(s, k + 2, k + 1 + n)), k + 1 + n)
        IN  (n >= 0 /\ k + 1 + n <= Len(s))
            => Claimed(decode_bytestring(s, overflow_checks))

\* C3's case: 10:ab:cde:fgh has been decoded from the head of the input
\* and bytes remain after it
C3_Witness ==
    /\ pc = "decode"
    /\ ret = <<ByteString(<<97, 98, 58, 99, 100, 101, 58, 102, 103, 104>>)>>
    /\ offset = 13
    /\ offset < Len(data)

\* C5: a byte-string whose declared length exceeds the bytes after its ':'
\* decodes to an error of kind InvalidByteStringData, without a panic, at
\* any depth (whatever slice of the input the byte-string starts).
C5_TruncatedByteStringError ==
    \A s \in Slices :
        LET n == DeclaredLength(s)
            Claimed(r) ==
                r.tag = "Err" /\ r.err.error_type = "InvalidByteStringData"
        IN  (n >= 0 /\ Position(s, COLON) + 1 + n > Len(s))
            => Claimed(decode_bytestring(s, overflow_checks))

\* the cursors at which the loop of decode_dict, started at off, expects a
\* key: off, and the cursor after each entry that decodes
RECURSIVE KeyPositionsFrom(_, _, _)
KeyPositionsFrom(s, off, checks) ==
    LET AfterValue(key, value) ==
            IF value.tag = "Ok"
            THEN KeyPositionsFrom(s, off + value.end_offset + key.end_offset,
                                  checks)
            ELSE {}
        AfterKey(key) ==
            IF key.tag = "Ok"
            THEN AfterValue(key, dispatch(SliceFrom(s, off + key.end_offset),
                                          checks))
            ELSE {}
    IN  IF ~(off < Len(s)) \/ s[off + 1] = E THEN {}
        ELSE {off} \cup AfterKey(decode_bytestring(SliceFrom(s, off), checks))

\* the key positions of a slice handed to decode_dict
KeyPositions(s, checks) ==
    IF Len(s) > 0 /\ s[1] = D THEN KeyPositionsFrom(s, 1, checks) ELSE {}

\* C6: in decode_dict, when the bytes at a key position (a cursor at which
\* the byte is not 'e') do not decode as a byte-string, the error returned
\* has kind InvalidDictKey.
C6_KeyFailureIsInvalidDictKey ==
    \A s \in Slices : \A off \in KeyPositions(s, overflow_checks) :
        LET Claimed(r) ==
                r.tag = "Err" /\ r.err.error_type = "InvalidDictKey"
        IN  decode_bytestring(SliceFrom(s, off), overflow_checks).tag = "Err"
            => Claimed(decode_dict(s, overflow_checks))

\* the body of an integer is empty or holds a byte that is not a digit,
\* a single leading '-' apart
MalformedIntegerBody(body) ==
    \/ body = <<>>
    \/ \E j \in 1..Len(body) :
          ~IsDigit(body[j]) /\ ~(j = 1 /\ body[1] = MINUS)

\* C7: an integer element whose body between 'i' and the first 'e' is
\* empty or holds a non-digit (a single leading '-' apart) decodes to an
\* error of kind InvalidIntegerValue: never an Integer, never a panic.
C7_MalformedIntegerError ==
    \A s \in Slices :
        LET integer_end == Position(s, E)
            Claimed(r) ==
                r.tag = "Err" /\ r.err.error_type = "InvalidIntegerValue"
        IN  (/\ Len(s) > 0
             /\ s[1] = I
             /\ integer_end >= 1
             /\ MalformedIntegerBody(SubSeq(s, 2, integer_end)))
            => Claimed(decode_integer(s, overflow_checks))

\* C8: when the input ends right after a dict key, so that the dispatcher
\* is called on an empty slice from inside the dict, decoding returns an
\* error of kind DispatchFailed; only the top-level loop takes an empty
\* remainder as the end of the input.
C8_EmptyValueDispatchFailed ==
    /\ (data = <<>> /\ pc # "decode") => pc \in {"ok", "printed"}
    /\ \A s \in Slices : \A off \in KeyPositions(s, overflow_checks) :
          LET EndsAfter(key) ==
                  key.tag = "Ok" /\ off + key.end_offset = Len(s)
              Claimed(r) ==
                  r.tag = "Err" /\ r.err.error_type = "DispatchFailed"
          IN  EndsAfter(decode_bytestring(SliceFrom(s, off), overflow_checks))
              => Claimed(decode_dict(s, overflow_checks))

\* the elements of a tree: itself, and those of its items and values
RECURSIVE SubElements(_)
SubElements(element) ==
    {element} \cup
    CASE element.kind = "List" ->
           UNION {SubElements(element.items[j]) : j \in 1..Len(element.items)}
      [] element.kind = "Dict" ->
           UNION {SubElements(element.entries[j].value) :
                     j \in 1..Len(element.entries)}
      [] OTHER -> {}

DecodedElements == UNION {SubElements(ret[j]) : j \in 1..Len(ret)}

\* the renderings of the items from j on, joined by ", "
RECURSIVE JoinedItems(_, _)
JoinedItems(items, j) ==
    IF j > Len(items) THEN <<>>
    ELSE FormatElement(items[j]).text
         \o (IF j < Len(items) THEN <<COMMA, SPACE>> ELSE <<>>)
         \o JoinedItems(items, j + 1)

\* C9: a List of n >= 0 elements renders as '[', the renderings of its
\* elements joined by ", ", and ']'; the empty list as "[]", nested or not.
C9_ListRendering ==
    \A element \in DecodedElements :
        LET Claimed(out) ==
                out.panic
                \/ out.text = <<LBRACKET>> \o JoinedItems(element.items, 1)
                              \o <<RBRACKET>>
        IN  element.kind = "List" => Claimed(FormatElement(element))

(***************************************************************************)
(* The bencoding grammar, read off the input without the decoder: a value  *)
(* is <decimal N>:<N bytes>, i<decimal integer>e, l<values>e or            *)
(* d<byte-string, value, ...>e.  An integer's tree keeps its decimal text, *)
(* so that it has a value whatever its size.                               *)
(***************************************************************************)
\* a decimal integer: 0, or an optional '-' and digits that start with 1..9
IsDecimalInteger(body) ==
    LET digits == IF body # <<>> /\ body[1] = MINUS THEN Tail(body) ELSE body
    IN  /\ digits # <<>>
        /\ \A j \in 1..Len(digits) : IsDigit(digits[j])
        /\ (digits[1] = ASCII_0 => body = <<ASCII_0>>)

NotAValue == [ok |-> FALSE]

RECURSIVE GrammarValue(_)
RECURSIVE GrammarList(_, _, _)
RECURSIVE GrammarDict(_, _, _)

\* the value a slice begins with: its tree and its length, or NotAValue
GrammarValue(s) ==
    LET n == DeclaredLength(s)
        k == Position(s, COLON)
        e == Position(s, E)
    IN  IF s = <<>> THEN NotAValue
        ELSE CASE IsDigit(s[1]) ->
                    IF n >= 0 /\ k + 1 + n <= Len(s)
                    THEN [ok |-> TRUE, len |-> k + 1 + n,
                          tree |-> [kind |-> "ByteString",
                                    bytes |-> SubSeq(s, k + 2, k + 1 + n)]]
                    ELSE NotAValue
               [] s[1] = I ->
                    IF e >= 2 /\ IsDecimalInteger(SubSeq(s, 2, e))
                    THEN [ok |-> TRUE, len |-> e + 1,
                          tree |-> [kind |-> "Integer", text |-> SubSeq(s, 2, e)]]
                    ELSE NotAValue
               [] s[1] = L -> GrammarList(s, 1, <<>>)
               [] s[1] = D -> GrammarDict(s, 1, <<>>)
               [] OTHER -> NotAValue

GrammarList(s, at, items) ==
    LET Then(item) ==
            IF item.ok
            THEN GrammarList(s, at + item.len, Append(items, item.tree))
            ELSE NotAValue
    IN  IF at >= Len(s) THEN NotAValue
        ELSE IF s[at + 1] = E
        THEN [ok |-> TRUE, len |-> at + 1,
              tree |-> [kind |-> "List", items |-> items]]
        ELSE Then(GrammarValue(SliceFrom(s, at)))

GrammarDict(s, at, entries) ==
    LET ThenValue(key, value) ==
            IF value.ok
            THEN GrammarDict(s, at + key.len + value.len,
                             Append(entries, [key |-> key.tree.bytes,
                                              value |-> value.tree]))
            ELSE NotAValue
        ThenKey(key) ==
            IF key.ok
            THEN ThenValue(key, GrammarValue(SliceFrom(s, at + key.len)))
            ELSE NotAValue
    IN  IF at >= Len(s) THEN NotAValue
        ELSE IF s[at + 1] = E
        THEN [ok |-> TRUE, len |-> at + 1,
              tree |-> [kind |-> "Dict", entries |-> entries]]
        ELSE IF ~IsDigit(s[at + 1]) THEN NotAValue
        ELSE ThenKey(GrammarValue(SliceFrom(s, at)))

\* the input as a concatenation of values: their trees and the index past
\* each, or NotAValue
RECURSIVE GrammarDocument(_, _, _, _)
GrammarDocument(s, at, trees, ends) ==
    LET Then(value) ==
            IF value.ok
            THEN GrammarDocument(s, at + value.len, Append(trees, value.tree),
                                 Append(ends, at + value.len))
            ELSE NotAValue
    IN  IF at >= Len(s) THEN [ok |-> TRUE, trees |-> trees, ends |-> ends]
        ELSE Then(GrammarValue(SliceFrom(s, at)))

\* a decoded Element is the tree of a value
RECURSIVE IsTree(_, _)
IsTree(element, tree) ==
    /\ element.kind = tree.kind
    /\ CASE tree.kind = "ByteString" -> element.bytes = tree.bytes
         [] tree.kind = "Integer" -> FormatI64(element.val) = tree.text
         [] tree.kind = "List" ->
              /\ Len(element.items) = Len(tree.items)
              /\ \A j \in 1..Len(tree.items) :
                    IsTree(element.items[j], tree.items[j])
         [] tree.kind = "Dict" ->
              /\ Len(element.entries) = Len(tree.entries)
              /\ \A j \in 1..Len(tree.entries) :
                    /\ element.entries[j].key = tree.entries[j].key
                    /\ IsTree(element.entries[j].value, tree.entries[j].value)

\* decode panicked (Println panics only after decode has returned)
DecodePanicked == pc = "panic" /\ offset < Len(data)

\* C2: for an input that is the concatenation of k >= 0 well-formed values,
\* decode returns Ok with exactly k elements, in order, each the tree of
\* its value: each element decoder stops exactly past its value and leaves
\* the rest to be decoded as the next value; for the empty input, the
\* empty sequence.
C2_ConcatenationDecodes ==
    LET Claimed(doc) ==
            doc.ok =>
               /\ pc # "err"
               /\ ~DecodePanicked
               /\ Len(ret) <= Len(doc.trees)
               /\ \A j \in 1..Len(ret) : IsTree(ret[j], doc.trees[j])
               /\ offset = (IF ret = <<>> THEN 0 ELSE doc.ends[Len(ret)])
               /\ (pc \in {"ok", "printed"} => Len(ret) = Len(doc.trees))
    IN  Claimed(GrammarDocument(data, 0, <<>>, <<>>))

(***************************************************************************)
(* C4: the integers that fit in an i64.                                    *)
(***************************************************************************)
\* 9223372036854775807 and 9223372036854775808
I64MaxText == <<57, 50, 50, 51, 51, 55, 50, 48, 51, 54, 56, 53, 52, 55, 55, 53, 56, 48, 55>>
I64MinMagnitudeText == <<57, 50, 50, 51, 51, 55, 50, 48, 51, 54, 56, 53, 52, 55, 55, 53, 56, 48, 56>>

\* digits without their leading zeros (one digit at least is kept)
RECURSIVE StripZeros(_)
StripZeros(digits) ==
    IF Len(digits) > 1 /\ digits[1] = ASCII_0 THEN StripZeros(Tail(digits))
    ELSE digits

\* a <= b for two digit runs of the same length
RECURSIVE DigitsLeq(_, _)
DigitsLeq(a, b) ==
    IF a = <<>> THEN TRUE
    ELSE IF a[1] # b[1] THEN a[1] < b[1]
    ELSE DigitsLeq(Tail(a), Tail(b))

\* an optional single '-' and one digit at least
IsSignedDigits(body) ==
    LET digits == IF body # <<>> /\ body[1] = MINUS THEN Tail(body) ELSE body
    IN  digits # <<>> /\ \A j \in 1..Len(digits) : IsDigit(digits[j])

\* the value of the signed digits fits in a signed 64 bit integer
FitsInI64(body) ==
    LET negative == body[1] = MINUS
        magnitude == StripZeros(IF negative THEN Tail(body) ELSE body)
    IN  \/ Len(magnitude) < 19
        \/ /\ Len(magnitude) = 19
           /\ DigitsLeq(magnitude,
                        IF negative THEN I64MinMagnitudeText ELSE I64MaxText)

\* the decimal text of the value of the signed digits
ValueText(body) ==
    LET negative == body[1] = MINUS
        magnitude == StripZeros(IF negative THEN Tail(body) ELSE body)
    IN  IF negative /\ magnitude # <<ASCII_0>> THEN <<MINUS>> \o magnitude
        ELSE magnitude

\* C4: for an integer element i<digits>e with an optional single leading
\* '-' and one digit at least, whose value fits in an i64, decode_integer
\* returns the Integer of that value, with end_offset the index of the
\* first 'e' plus one; i007e and i-0e yield 7 and 0.
C4_IntegerDecodes ==
    \A s \in Slices :
        LET integer_end == Position(s, E)
            body == SubSeq(s, 2, integer_end)
            Claimed(r) ==
                /\ r.tag = "Ok"
                /\ r.element.kind = "Integer"
                /\ FormatI64(r.element.val) = ValueText(body)
                /\ r.end_offset = integer_end + 1
        IN  (/\ Len(s) > 0
             /\ s[1] = I
             /\ integer_end >= 2
             /\ IsSignedDigits(body)
             /\ FitsInI64(body))
            => Claimed(decode_integer(s, overflow_checks))

(***************************************************************************)
(* C10: progress.                                                          *)
(***************************************************************************)
\* the cursors at which the loop of decode_list, started at off, decodes an
\* item: off, and the cursor after each item that decodes
RECURSIVE ItemPositionsFrom(_, _, _)
ItemPositionsFrom(s, off, checks) ==
    LET After(item) ==
            IF item.tag = "Ok"
            THEN ItemPositionsFrom(s, off + item.end_offset, checks)
            ELSE {}
    IN  IF ~(off < Len(s)) \/ s[off + 1] = E THEN {}
        ELSE {off} \cup After(dispatch(SliceFrom(s, off), checks))

ItemPositions(s, checks) ==
    IF Len(s) > 0 /\ s[1] = L THEN ItemPositionsFrom(s, 1, checks) ELSE {}

\* what each element decoder returns on a slice
ElementDecodes(s, checks) ==
    {dispatch(s, checks), decode_bytestring(s, checks),
     decode_integer(s, checks), decode_list(s, checks), decode_dict(s, checks)}

\* every successful element decode of a slice ends within it, past its
\* first byte at least
EndOffsetInSlice ==
    \A s \in Slices : \A r \in ElementDecodes(s, overflow_checks) :
        r.tag = "Ok" => (1 <= r.end_offset /\ r.end_offset <= Len(s))

\* an iteration of the loop of decode_list or of decode_dict that decodes
\* its item or entry moves the cursor forward, and not past the slice
ContainerCursorsAdvance ==
    \A s \in Slices :
        /\ \A off \in ItemPositions(s, overflow_checks) :
              LET Advances(item) ==
                      item.tag = "Ok" =>
                         (off < off + item.end_offset
                          /\ off + item.end_offset <= Len(s))
              IN  Advances(dispatch(SliceFrom(s, off), overflow_checks))
        /\ \A off \in KeyPositions(s, overflow_checks) :
              LET AdvancesBy(key, value) ==
                      value.tag = "Ok" =>
                         (off < off + value.end_offset + key.end_offset
                          /\ off + value.end_offset + key.end_offset <= Len(s))
                  Advances(key) ==
                      key.tag = "Ok" =>
                         AdvancesBy(key,
                                    dispatch(SliceFrom(s, off + key.end_offset),
                                             overflow_checks))
              IN  Advances(decode_bytestring(SliceFrom(s, off), overflow_checks))

\* the top-level loop has made at most as many iterations as it has
\* consumed bytes, which are at most the input's
TopLevelBounded ==
    /\ offset <= Len(data)
    /\ Len(ret) <= offset

\* an iteration of the top-level loop that does not end decode moves the
\* cursor forward
TopLevelCursorAdvances ==
    (pc = "decode" /\ pc' = "decode") => (offset < offset' /\ offset' <= Len(data))

\* C10: every successful element decode on a slice s returns end_offset
\* with 1 <= end_offset <= len(s); so the cursor of the top-level loop and
\* of every list and dict loop strictly increases on each iteration without
\* exceeding its slice, and decode finishes (a result, an error or a panic)
\* within a number of iterations bounded by the input's length.
C10_Progress ==
    /\ [](EndOffsetInSlice /\ ContainerCursorsAdvance /\ TopLevelBounded)
    /\ [][TopLevelCursorAdvances]_vars

\* C10's case: the top-level loop has decoded the list li10ei1el1:bee,
\* whose loop ran three times (the third on a nested list), and goes on
C10_Witness ==
    /\ pc = "decode"
    /\ Len(ret) = 1
    /\ ret[1].kind = "List"
    /\ Len(ret[1].items) = 3
    /\ ret[1].items[3].kind = "List"
    /\ offset = 14
    /\ offset < Len(data)

====
